---- MODULE Spec2Model ----
(***************************************************************************)
(* kindle-ai-export: the extraction state machine (extract-kindle-book.ts) *)
(* and the transcription pipeline (transcribe-book-content.ts), with the   *)
(* files they share: pages/<index>-<page>.png, metadata.json, content.json *)
(***************************************************************************)
EXTENDS Integers, Sequences, FiniteSets, TLC

VARIABLES
    files,                \* pages directory: the names of its png files
    contentFile,          \* content.json: [kind: "absent", "corrupt" or "json", chunks]
    tpc,                  \* transcription run: "idle", "dispatch", "done", "aborted"
    existingContent,      \* transcribe main: existingContent
    screenshotsToProcess, \* transcribe main: screenshotsToProcess (the pMap input)
    units,                \* one record per pMap input element: state of its mapper call
    tRuns,                \* number of transcription runs started
    prevContentFile,      \* content.json as the previous transcription run left it
    added,                \* an artifact was added since the last run started
    sameArtifacts,        \* this run sees the artifact set the previous run saw
    writes,               \* number of writes of content.json in this run
    metadataFile,         \* metadata.json: [kind: "absent", "corrupt" or "json", pages]
    toc,                  \* the book's table of contents as the reader shows it
    metaTotalPages,       \* meta.totalPages of the book's metadata, 0 when it has none
    epc,                  \* extraction run: control position of main
    force,                \* extract main: force
    pages,                \* extract main: pages
    startPage,            \* extract main: startPage
    cur,                  \* page source: the page the reader shows
    pageNav,              \* extract main: pageNav of the current loop iteration
    retries,              \* extract main: retries of the advance loop
    eRuns,                \* number of extraction runs started
    filesAtStart,         \* the pages directory when this extraction run started
    manifestAtStart,      \* metadata.json when this extraction run started
    discarded,            \* this run cleared the page list loaded from metadata.json
    pagesBase,            \* number of entries of pages that came from metadata.json
    overwritten,          \* this run wrote a bitmap over a file that existed
    arg,                  \* the argument of the function under evaluation
    result                \* << >> before the call returns, then <<value returned>>

\* the variables of the transcription pipeline alone
tvars == <<contentFile, tpc, existingContent, screenshotsToProcess, units,
           tRuns, prevContentFile, added, sameArtifacts, writes>>

\* the variables of the extraction alone
evars == <<metadataFile, toc, metaTotalPages, epc, force, pages, startPage, cur, pageNav,
           retries, eRuns, filesAtStart, manifestAtStart, discarded, pagesBase,
           overwritten>>

\* the variables of the evaluation of a function on its own
fvars == <<arg, result>>

vars == <<files, tvars, evars, fvars>>

----------------------------------------------------------------------------
(* Bounds of the model *)

MaxTRuns == 2

----------------------------------------------------------------------------
(* Program constants *)

maxRetries == 20

concurrency == 16

----------------------------------------------------------------------------
(* Strings are sequences of characters; ".png" is kept as one token.       *)

Digits == <<"0", "1", "2", "3", "4", "5", "6", "7", "8", "9">>

IsDigit(c) == \E d \in 1..10 : Digits[d] = c

DigitVal(c) == (CHOOSE d \in 1..10 : Digits[d] = c) - 1

AllDigits(s, from, to) == \A i \in from..to : IsDigit(s[i])

\* `${n}` for a non-negative integer
RECURSIVE NumToString(_)
NumToString(n) ==
    IF n < 10 THEN <<Digits[n + 1]>>
    ELSE NumToString(n \div 10) \o <<Digits[(n % 10) + 1]>>

\* String.prototype.padStart(width, '0')
RECURSIVE padStart(_, _)
padStart(s, width) ==
    IF Len(s) >= width THEN s ELSE padStart(<<"0">> \o s, width)

\* Number.parseInt(s, 10) of a non-empty string of digits
RECURSIVE parseInt(_)
parseInt(s) ==
    IF Len(s) = 0 THEN 0
    ELSE 10 * parseInt(SubSeq(s, 1, Len(s) - 1)) + DigitVal(s[Len(s)])

\* extract main: `${index}`.padStart(pagePadding,'0') + '-' + `${page}`.padStart(pagePadding,'0') + '.png'
screenshotPath(index, page, pagePadding) ==
    padStart(NumToString(index), pagePadding) \o <<"-">>
        \o padStart(NumToString(page), pagePadding) \o <<".png">>

\* extract main: `${total * 2}`.length
pagePaddingOf(total) == Len(NumToString(total * 2))

\* A png in the pages directory that the extraction did not write
StrayName == <<"c", "o", "v", "e", "r", ".png">>

----------------------------------------------------------------------------
(* transcribe: screenshot.match(/(?:^|\/)\d*-?(\d+)-(\d+)\.png$/)          *)
(* The match is anchored at the last "/" of the path, so it runs over the  *)
(* file name: k digits for \d*, d dashes for -?, m digits for group 1, a   *)
(* dash, n >= 1 digits for group 2, then ".png" at the end.                *)

metadataMatches(f) ==
    { t \in (0..Len(f)) \X (0..1) \X (1..Len(f)) :
        LET k == t[1]
            d == t[2]
            m == t[3]
            dash == k + d + m + 1
        IN  /\ dash + 2 <= Len(f)
            /\ f[Len(f)] = ".png"
            /\ AllDigits(f, 1, k)
            /\ (d = 1 => f[k + 1] = "-")
            /\ AllDigits(f, k + d + 1, k + d + m)
            /\ f[dash] = "-"
            /\ AllDigits(f, dash + 1, Len(f) - 1) }

\* Backtracking order: \d* greedy, then -? greedy, then (\d+) greedy
Prefers(a, b) ==
    \/ a[1] > b[1]
    \/ a[1] = b[1] /\ a[2] > b[2]
    \/ a[1] = b[1] /\ a[2] = b[2] /\ a[3] >= b[3]

metadataMatch(f) ==
    LET ms == metadataMatches(f)
    IN  IF ms = {} THEN << >>
        ELSE LET t == CHOOSE a \in ms : \A b \in ms : Prefers(a, b)
                 g1 == t[1] + t[2] + 1
                 dash == t[1] + t[2] + t[3] + 1
             IN  <<SubSeq(f, g1, dash - 1), SubSeq(f, dash + 1, Len(f) - 1)>>

----------------------------------------------------------------------------
(* transcribe: the recognizer's answers and the retry classifier           *)

NoError == [status |-> 0, type |-> "", code |-> ""]

\* What one call of openai.createChatCompletion can give: a text, an empty
\* text, a short "I'm sorry" text, no content at all, or a thrown error.
ApiErrors ==
    { [status |-> 429, type |-> "rate_limit_exceeded", code |-> ""],
      [status |-> 429, type |-> "insufficient_quota", code |-> ""],
      [status |-> 400, type |-> "invalid_request_error", code |-> ""],
      [status |-> 503, type |-> "server_error", code |-> ""],
      [status |-> 0, type |-> "", code |-> "ECONNRESET"] }

Responses ==
    { [kind |-> k, error |-> NoError] : k \in {"text", "empty", "refusal", "null"} }
        \cup { [kind |-> "error", error |-> e] : e \in ApiErrors }

\* Mutant: only a rate limit is retried
retryOnRateLimitOnly(error) == error.status = 429

\* NoError stands for no error object (!error) and for one without status,
\* type and code; status 0 stands for a status that is not a number
isRetryableError(error) ==
    IF error = NoError THEN FALSE
    ELSE IF error.status = 429 THEN TRUE
    ELSE IF error.status >= 500 /\ error.status < 600 THEN TRUE
    ELSE IF error.type = "insufficient_quota" THEN FALSE
    ELSE IF error.type = "invalid_request_error" THEN FALSE
    ELSE error.code \in {"ECONNRESET", "ENOTFOUND", "ECONNREFUSED"}

----------------------------------------------------------------------------
(* transcribe: the merge, [...existingContent, ...content].sort(cmp)       *)

\* Mutant: the comparator forgets the page
compareIndexOnly(a, b) == a.index - b.index

\* (a, b) => a.index - b.index || a.page - b.page
compareChunks(a, b) ==
    IF a.index - b.index # 0 THEN a.index - b.index ELSE a.page - b.page

\* Array.prototype.sort is stable: x goes after every element that is not greater
insertChunk(sorted, x) ==
    LET k == Cardinality({ i \in 1..Len(sorted) : compareChunks(sorted[i], x) <= 0 })
    IN  SubSeq(sorted, 1, k) \o <<x>> \o SubSeq(sorted, k + 1, Len(sorted))

RECURSIVE sortChunks(_)
sortChunks(s) ==
    IF Len(s) = 0 THEN << >>
    ELSE insertChunk(sortChunks(SubSeq(s, 1, Len(s) - 1)), s[Len(s)])

merged(existing, content) == sortChunks(existing \o content)

----------------------------------------------------------------------------
(* transcribe: main                                                        *)

Range(s) == { s[i] : i \in 1..Len(s) }

\* The orders in which globby may list a set of names
Listings(S) ==
    { s \in [1..Cardinality(S) -> S] : \A i, j \in 1..Cardinality(S) : s[i] = s[j] => i = j }

RECURSIVE SelectSeq2(_, _)
SelectSeq2(s, keep) ==
    IF Len(s) = 0 THEN << >>
    ELSE IF s[1] \in keep THEN <<s[1]>> \o SelectSeq2(Tail(s), keep)
    ELSE SelectSeq2(Tail(s), keep)

\* Mutant: the existing manifest is never loaded
loadNothing(file) == << >>

\* try { JSON.parse(readFile(contentPath)) } catch {}
loadExisting(file) == IF file.kind \in {"absent", "corrupt"} THEN << >> ELSE file.chunks

\* fs.writeFile(contentPath, JSON.stringify(chunks, null, 2))
JsonFile(chunks) == [kind |-> "json", chunks |-> chunks]

NoFile(kind) == [kind |-> kind, chunks |-> << >>]

\* Mutant: no screenshot counts as processed
processedNone(existing) == {}

\* new Set(existingContent.map((c) => c.screenshot))
processedScreenshots(existing) == { existing[i].screenshot : i \in 1..Len(existing) }

\* Mutant: the filter keeps every screenshot
toProcessAll(pageScreenshots, existing) == pageScreenshots

\* pageScreenshots.filter((s) => !processedScreenshots.has(s))
toProcess(pageScreenshots, existing) ==
    SelectSeq2(pageScreenshots, Range(pageScreenshots) \ processedScreenshots(existing))

\* calls counts the calls of openai.createChatCompletion the mapper call has made
PendingUnit == [st |-> "pending", retries |-> 0, calls |-> 0, index |-> 0, page |-> 0]

\* the results pMap returns, in input order, after .filter(Boolean)
RECURSIVE contentOf(_, _)
contentOf(us, names) ==
    IF Len(us) = 0 THEN << >>
    ELSE (IF us[1].st = "chunk"
          THEN <<[index |-> us[1].index, page |-> us[1].page, text |-> "text",
                  screenshot |-> names[1]]>>
          ELSE << >>) \o contentOf(Tail(us), Tail(names))

TStartRun ==
    /\ tpc \in {"idle", "done", "aborted"}
    /\ tRuns < MaxTRuns
    /\ tRuns' = tRuns + 1
    /\ prevContentFile' = contentFile
    /\ sameArtifacts' = (tRuns >= 1 /\ ~added)
    /\ added' = FALSE
    /\ UNCHANGED <<files, evars, fvars>>
    /\ IF files = {}
       THEN \* assert(pageScreenshots.length)
            /\ tpc' = "aborted"
            /\ existingContent' = << >>
            /\ screenshotsToProcess' = << >>
            /\ units' = << >>
            /\ writes' = 0
            /\ UNCHANGED contentFile
       ELSE \E pageScreenshots \in Listings(files) :
            LET existing == loadExisting(contentFile)
                work == toProcess(pageScreenshots, existing)
            IN  /\ existingContent' = existing
                /\ screenshotsToProcess' = work
                /\ units' = [i \in 1..Len(work) |-> PendingUnit]
                /\ IF Len(work) = 0
                   THEN /\ contentFile' = JsonFile(sortChunks(existing))
                        /\ writes' = 1
                        /\ tpc' = "done"
                   ELSE /\ UNCHANGED contentFile
                        /\ writes' = 0
                        /\ tpc' = "dispatch"

\* A variant of pMap that starts every mapper call at once
canBeginUnbounded(i) ==
    /\ units[i].st = "pending"
    /\ \A j \in 1..(i - 1) : units[j].st # "pending"

\* pMap calls the mapper in input order while fewer than `concurrency` calls run
CanBegin(i) ==
    /\ units[i].st = "pending"
    /\ \A j \in 1..(i - 1) : units[j].st # "pending"
    /\ Cardinality({ j \in 1..Len(units) : units[j].st = "running" }) < concurrency

\* mapper prologue: readFile, the filename match and the two asserts. A throw
\* here is outside the mapper's try: pMap rejects and main ends without a write.
TBegin(i, readable) ==
    /\ tpc = "dispatch"
    /\ CanBegin(i)
    /\ LET m == metadataMatch(screenshotsToProcess[i])
       IN  IF ~readable \/ m = << >>
           THEN /\ tpc' = "aborted"
                /\ UNCHANGED units
           ELSE /\ units' = [units EXCEPT ![i] =
                       [st |-> "running", retries |-> 0, calls |-> 0,
                        index |-> parseInt(m[1]), page |-> parseInt(m[2])]]
                /\ UNCHANGED tpc
    /\ UNCHANGED <<files, contentFile, existingContent, screenshotsToProcess,
                   tRuns, prevContentFile, added, sameArtifacts, writes, evars, fvars>>

\* Mutant: a call that fails is not counted
retryUncounted(u, r) ==
    IF r.kind = "text"
    THEN [u EXCEPT !.st = "chunk", !.calls = u.calls + 1]
    ELSE [u EXCEPT !.calls = u.calls + 1]

\* One iteration of while (retries < maxRetries): the call and what follows it
afterAttempt(u, r) ==
    IF r.kind = "text" THEN [u EXCEPT !.st = "chunk", !.calls = u.calls + 1]
    ELSE IF r.kind \in {"empty", "refusal"}
    THEN IF u.retries + 1 < maxRetries
         THEN [u EXCEPT !.retries = u.retries + 1, !.calls = u.calls + 1]
         ELSE \* throw new Error(...), caught by the inner catch and thrown again
              [u EXCEPT !.retries = u.retries + 2, !.calls = u.calls + 1, !.st = "none"]
    ELSE IF r.kind = "null"
    THEN \* rawText.replace on undefined throws a TypeError
         [u EXCEPT !.retries = u.retries + 1, !.calls = u.calls + 1, !.st = "none"]
    ELSE IF ~isRetryableError(r.error) \/ u.retries + 1 >= maxRetries
         THEN [u EXCEPT !.retries = u.retries + 1, !.calls = u.calls + 1, !.st = "none"]
         ELSE [u EXCEPT !.retries = u.retries + 1, !.calls = u.calls + 1]

TAttempt(i, r) ==
    /\ tpc = "dispatch"
    /\ units[i].st = "running"
    /\ units[i].retries < maxRetries
    /\ units' = [units EXCEPT ![i] = afterAttempt(units[i], r)]
    /\ UNCHANGED <<files, contentFile, tpc, existingContent, screenshotsToProcess,
                   tRuns, prevContentFile, added, sameArtifacts, writes, evars, fvars>>

AllResolved == \A i \in 1..Len(units) : units[i].st \in {"chunk", "none"}

TMerge ==
    /\ tpc = "dispatch"
    /\ AllResolved
    /\ contentFile' = JsonFile(merged(existingContent, contentOf(units, screenshotsToProcess)))
    /\ writes' = writes + 1
    /\ tpc' = "done"
    /\ UNCHANGED <<files, existingContent, screenshotsToProcess, units,
                   tRuns, prevContentFile, added, sameArtifacts, evars, fvars>>

\* The extraction captures one more page between two transcription runs
AddArtifact(name) ==
    /\ tpc # "dispatch"
    /\ name \notin files
    /\ files' = files \cup {name}
    /\ added' = TRUE
    /\ UNCHANGED <<contentFile, tpc, existingContent, screenshotsToProcess, units,
                   tRuns, prevContentFile, sameArtifacts, writes, evars, fvars>>

----------------------------------------------------------------------------
(* extract: the book and the reader (the page source)                      *)

BookTotal == 10

FirstContentPage == 8

BackMatterPage == 9

MaxERuns == 3

MaxPages == 3

\* an absent number (undefined)
NoNum == -1

TocItem(title, page, location) ==
    [title |-> title, page |-> page, location |-> location, total |-> BookTotal]

\* Titles are sequences of lower-case words (the patterns ignore case)
BookTocs ==
    { << TocItem(<<"cover">>, NoNum, 1),
         TocItem(<<"chapter", "one">>, FirstContentPage, NoNum),
         TocItem(<<"copyright">>, BackMatterPage, NoNum) >>,
      << TocItem(<<"cover">>, NoNum, 1),
         TocItem(<<"chapter", "one">>, FirstContentPage, NoNum),
         TocItem(<<"epilogue">>, BackMatterPage, NoNum) >> }

\* The position a read of the footer gives while the reader shows page p
PositionAt(p) == [page |-> p, location |-> NoNum, total |-> BookTotal]

\* getPageNav() gave undefined
NoPosition == [page |-> NoNum, location |-> NoNum, total |-> 0]

----------------------------------------------------------------------------
(* extract: parseTocItems and totalContentPages                            *)

HasWords(title, ws) ==
    \E i \in 0..(Len(title) - Len(ws)) : SubSeq(title, i + 1, i + Len(ws)) = ws

StartsWith(title, ws) == Len(title) >= Len(ws) /\ SubSeq(title, 1, Len(ws)) = ws

EndsAfterSpace(title, w) == Len(title) >= 2 /\ title[Len(title)] = w

\* the thirteen title tests of parseTocItems
isBackMatterTitle(title) ==
    \/ HasWords(title, <<"acknowledgements">>)
    \/ title = <<"discover", "more">>
    \/ title = <<"extras">>
    \/ HasWords(title, <<"about", "the", "author">>)
    \/ HasWords(title, <<"meet", "the", "author">>)
    \/ StartsWith(title, <<"also", "by">>) /\ Len(title) > 2
    \/ title = <<"copyright">>
    \/ EndsAfterSpace(title, "teaser")
    \/ EndsAfterSpace(title, "preview")
    \/ StartsWith(title, <<"excerpt", "from">>)
    \/ title = <<"cast", "of", "characters">>
    \/ title = <<"timeline">>
    \/ StartsWith(title, <<"other", "titles">>)

\* Mutant: the first entry of the TOC is the start
firstTocItem(tocItems) == IF Len(tocItems) > 0 THEN 1 ELSE 0

\* index of tocItems.find((item) => item.page !== undefined), 0 when none
firstPageTocItem(tocItems) ==
    IF \E i \in 1..Len(tocItems) : tocItems[i].page # NoNum
    THEN CHOOSE i \in 1..Len(tocItems) :
            /\ tocItems[i].page # NoNum
            /\ \A j \in 1..(i - 1) : tocItems[j].page = NoNum
    ELSE 0

\* Mutant: the ratio of page to total is not looked at
isAfterLastAnywhere(tocItems, i) ==
    /\ tocItems[i].page # NoNum
    /\ i # firstPageTocItem(tocItems)
    /\ isBackMatterTitle(tocItems[i].title)

isAfterLast(tocItems, i) ==
    /\ tocItems[i].page # NoNum
    /\ i # firstPageTocItem(tocItems)
    /\ 10 * tocItems[i].page >= 9 * tocItems[i].total
    /\ isBackMatterTitle(tocItems[i].title)

\* index of the second find of parseTocItems, 0 when none
afterLastPageTocItem(tocItems) ==
    IF \E i \in 1..Len(tocItems) : isAfterLast(tocItems, i)
    THEN CHOOSE i \in 1..Len(tocItems) :
            /\ isAfterLast(tocItems, i)
            /\ \A j \in 1..(i - 1) : ~isAfterLast(tocItems, j)
    ELSE 0

Min(a, b) == IF a <= b THEN a ELSE b

Max(a, b) == IF a >= b THEN a ELSE b

totalContentPages(tocItems) ==
    LET total == tocItems[firstPageTocItem(tocItems)].total
        last == afterLastPageTocItem(tocItems)
    IN  Min(IF last # 0 /\ tocItems[last].page # 0 THEN tocItems[last].page ELSE total, total)

----------------------------------------------------------------------------
(* extract: the files                                                      *)

MetaFile(kind, ps) == [kind |-> kind, pages |-> ps]

\* f.match(/^(\d+)-(\d+)\.png$/) ? Number.parseInt(match[2], 10) : 0
pageOfName(f) ==
    IF \E d \in 2..(Len(f) - 2) :
          /\ f[d] = "-" /\ f[Len(f)] = ".png"
          /\ AllDigits(f, 1, d - 1) /\ AllDigits(f, d + 1, Len(f) - 1)
    THEN LET d == CHOOSE d \in 2..(Len(f) - 2) : f[d] = "-"
         IN  parseInt(SubSeq(f, d + 1, Len(f) - 1))
    ELSE 0

\* pngFiles.map(...).filter((p) => p > 0)
pageNumbers(dir) == { pageOfName(f) : f \in dir } \ {0}

SetMax(S) == IF S = {} THEN 0 ELSE CHOOSE m \in S : \A x \in S : x <= m

\* The offline check at the start of main: TRUE when main returns there
appearsComplete(file, dir, metaTotal) ==
    LET existingPages == file.pages
        expectedPages == IF metaTotal # 0 THEN metaTotal ELSE Len(existingPages)
        actualScreenshots == Cardinality(dir)
        lastPage == SetMax(pageNumbers(dir))
        extractedPages == Max(Len(existingPages), actualScreenshots)
    IN  \/ lastPage > 0 /\ lastPage >= expectedPages
        \/ extractedPages >= expectedPages

\* Mutant: the resume point is taken from the counts alone
resumePointFromCounts(loaded, dir) == Max(Len(loaded), Cardinality(dir)) + 1

\* The resume point: startPage after the reconciliation with the screenshots
resumePoint(loaded, dir) ==
    LET actualScreenshots == Cardinality(dir)
        lastExtractedPage == SetMax(pageNumbers(dir))
        extractedPages == Max(Len(loaded), actualScreenshots)
    IN  IF extractedPages > 0
        THEN (IF lastExtractedPage > 0 THEN lastExtractedPage + 1 ELSE extractedPages + 1)
        ELSE 1

\* pages after the reconciliation: cleared when the screenshots outnumber it
resumePages(loaded, dir) ==
    IF Cardinality(dir) > Len(loaded) THEN << >> ELSE loaded

\* goToPage(pageNumber): the reader moves to a page of the book
goToPage(pageNumber, shown) == IF pageNumber <= BookTotal THEN pageNumber ELSE shown

\* Mutant: an existing screenshot is never skipped
neverSkip(path) == FALSE

\* !force && (await fileExists(screenshotPath))
skipExisting(path) == ~force /\ path \in files

\* Mutant: the loop goes on at the end boundary itself
pastEndOnly(nav) == nav.page = NoNum \/ nav.page > totalContentPages(toc)

\* the two breaks at the top of the capture loop
loopEnds(nav) == nav.page = NoNum \/ nav.page >= totalContentPages(toc)

----------------------------------------------------------------------------
(* extract: main                                                           *)

InRun == epc \in {"session", "resume", "loop", "skipnav", "capnav", "verify"}

EStartRun(f) ==
    /\ epc \in {"idle", "returned", "done", "aborted", "killed"}
    /\ eRuns < MaxERuns
    /\ eRuns' = eRuns + 1
    /\ force' = f
    /\ filesAtStart' = files
    /\ manifestAtStart' = metadataFile
    /\ discarded' = FALSE
    /\ pagesBase' = 0
    /\ overwritten' = FALSE
    /\ pages' = << >>
    /\ startPage' = 1
    /\ pageNav' = NoPosition
    /\ retries' = 0
    /\ epc' = IF ~f /\ metadataFile.kind = "json"
                    /\ appearsComplete(metadataFile, files, metaTotalPages)
              THEN "returned" ELSE "session"
    /\ cur' = 1
    /\ UNCHANGED <<files, tvars, fvars, metadataFile, toc, metaTotalPages>>

\* Browser session, sign-in, TOC collection, parseTocItems, click on the
\* first page item. ok = FALSE: one of these steps throws.
ESession(ok) ==
    /\ epc = "session"
    /\ IF ok /\ firstPageTocItem(toc) # 0 /\ totalContentPages(toc) > 0
       THEN /\ cur' = toc[firstPageTocItem(toc)].page
            /\ epc' = "resume"
       ELSE /\ epc' = "aborted"
            /\ cur' = 1
    /\ UNCHANGED <<files, tvars, fvars, metadataFile, toc, metaTotalPages, force, pages, startPage,
                   pageNav, retries, eRuns, filesAtStart, manifestAtStart, discarded,
                   pagesBase, overwritten>>

\* Load existing pages if resuming, then navigate to the start page
EResume ==
    /\ epc = "resume"
    /\ IF ~force /\ metadataFile.kind = "json"
       THEN /\ pages' = resumePages(metadataFile.pages, files)
            /\ discarded' = (Cardinality(files) > Len(metadataFile.pages))
            /\ startPage' = resumePoint(metadataFile.pages, files)
       ELSE \* forced, no metadata.json, or JSON.parse threw
            /\ pages' = << >>
            /\ discarded' = FALSE
            /\ startPage' = 1
    /\ pagesBase' = Len(pages')
    /\ cur' = IF startPage' > 1 THEN goToPage(startPage', cur) ELSE cur
    /\ epc' = "loop"
    /\ UNCHANGED <<files, tvars, fvars, metadataFile, toc, metaTotalPages, force, pageNav, retries,
                   eRuns, filesAtStart, manifestAtStart, overwritten>>

\* Top of the capture loop up to the advance: nav is what getPageNav() gives
ELoopTop(nav) ==
    /\ epc = "loop"
    /\ pageNav' = nav
    /\ retries' = 0
    /\ IF loopEnds(nav)
       THEN /\ epc' = "verify"
            /\ UNCHANGED <<files, pages, overwritten>>
       ELSE LET index == Len(pages)
                path == screenshotPath(index, nav.page, pagePaddingOf(BookTotal))
                chunk == [index |-> index, page |-> nav.page, total |-> nav.total,
                          screenshot |-> path]
            IN  /\ Len(pages) < MaxPages
                /\ pages' = Append(pages, chunk)
                /\ IF skipExisting(path)
                   THEN /\ epc' = "skipnav"
                        /\ UNCHANGED <<files, overwritten>>
                   ELSE /\ epc' = "capnav"
                        /\ files' = files \cup {path}
                        /\ overwritten' = (overwritten \/ path \in files)
    /\ UNCHANGED <<tvars, fvars, metadataFile, toc, metaTotalPages, force, startPage, cur, eRuns,
                   filesAtStart, manifestAtStart, discarded, pagesBase>>

\* What the page source does with a click on the next-page chevron: the
\* click throws, the page turns, or the request is dropped
ClickOutcomes == {"throws", "turns", "dropped"}

\* What the nine iterations between two clicks see: the same image, a page
\* that turns late, or a read that throws
WaitOutcomes == {"same", "late", "readthrows"}

\* The advance loop of the skip path: the iteration with the click
\* (retries % 10 = 0), then the iterations without one up to retries = 10.
\* newSrc and currentSrc are read one after the other and are equal.
ESkipPoll(o) ==
    /\ epc = "skipnav"
    /\ o \in (IF retries % 10 = 0 THEN ClickOutcomes \cup {"readthrows"} ELSE WaitOutcomes)
    /\ o \in {"turns", "late"} => cur < BookTotal
    /\ cur' = IF o \in {"turns", "late"} THEN cur + 1 ELSE cur
    /\ IF retries % 10 = 0 /\ o \in {"turns", "dropped"}
       THEN /\ epc' = "skipnav"
            /\ retries' = retries + 1
            /\ UNCHANGED pageNav
       ELSE \* break in the catch, or while (retries < 10) ends; then continue
            /\ epc' = "loop"
            /\ retries' = 0
            /\ pageNav' = NoPosition
    /\ UNCHANGED <<files, tvars, fvars, metadataFile, toc, metaTotalPages, force, pages, startPage,
                   eRuns, filesAtStart, manifestAtStart, discarded, pagesBase, overwritten>>

\* The advance loop of the capture path, do { ... } while (true): the
\* iteration with the click (retries % 10 = 0), then the nine without one.
\* Only the click is inside the try. The loop has no bound on retries and
\* reads the counter only modulo 10, which is how it is kept here.
ECapPoll(o) ==
    /\ epc = "capnav"
    /\ o \in (IF retries % 10 = 0 THEN ClickOutcomes \cup {"readthrows"} ELSE WaitOutcomes)
    /\ o \in {"turns", "late"} => cur < BookTotal
    /\ cur' = IF o \in {"turns", "late"} THEN cur + 1 ELSE cur
    /\ IF o \in {"dropped", "same"}
       THEN /\ epc' = "capnav"
            /\ retries' = (IF o = "dropped" THEN retries + 1 ELSE retries + 9) % 10
            /\ UNCHANGED pageNav
       ELSE \* the read throws outside the try, or break and the next iteration
            /\ epc' = IF o = "readthrows" THEN "aborted" ELSE "loop"
            /\ retries' = 0
            /\ pageNav' = NoPosition
    /\ UNCHANGED <<files, tvars, fvars, metadataFile, toc, metaTotalPages, force, pages, startPage,
                   eRuns, filesAtStart, manifestAtStart, discarded, pagesBase, overwritten>>

\* A variant that writes metadata.json only when the loop ended at the end
\* boundary
EWriteIfComplete ==
    /\ epc = "verify"
    /\ metadataFile' = IF pageNav # NoPosition THEN MetaFile("json", pages) ELSE metadataFile
    /\ cur' = 1
    /\ epc' = "done"
    /\ UNCHANGED <<files, tvars, fvars, toc, metaTotalPages, force, pages, startPage, pageNav,
                   retries, eRuns, filesAtStart, manifestAtStart, discarded, pagesBase,
                   overwritten>>

\* Verification summary and the write of metadata.json
EWrite ==
    /\ epc = "verify"
    /\ metadataFile' = MetaFile("json", pages)
    /\ cur' = 1
    /\ epc' = "done"
    /\ UNCHANGED <<files, tvars, fvars, toc, metaTotalPages, force, pages, startPage, pageNav,
                   retries, eRuns, filesAtStart, manifestAtStart, discarded, pagesBase,
                   overwritten>>

\* The process is ended from outside while it runs: nothing of it remains,
\* what is on disk stays
EKill ==
    /\ InRun
    /\ epc' = "killed"
    /\ force' = FALSE
    /\ pages' = << >>
    /\ startPage' = 1
    /\ cur' = 1
    /\ pageNav' = NoPosition
    /\ retries' = 0
    /\ filesAtStart' = {}
    /\ manifestAtStart' = MetaFile("absent", << >>)
    /\ discarded' = FALSE
    /\ pagesBase' = 0
    /\ overwritten' = FALSE
    /\ UNCHANGED <<files, tvars, fvars, metadataFile, toc, metaTotalPages, eRuns>>

TranscriptionIdle ==
    /\ contentFile = NoFile("absent")
    /\ tpc = "idle"
    /\ existingContent = << >>
    /\ screenshotsToProcess = << >>
    /\ units = << >>
    /\ tRuns = 0
    /\ prevContentFile = NoFile("absent")
    /\ added = FALSE
    /\ sameArtifacts = FALSE
    /\ writes = 0

\* No function is under evaluation
FunctionsIdle == arg = << >> /\ result = << >>

ExtractionFresh ==
    /\ epc = "idle"
    /\ force = FALSE
    /\ pages = << >>
    /\ startPage = 1
    /\ cur = 1
    /\ pageNav = NoPosition
    /\ retries = 0
    /\ eRuns = 0
    /\ filesAtStart = {}
    /\ manifestAtStart = MetaFile("absent", << >>)
    /\ discarded = FALSE
    /\ pagesBase = 0
    /\ overwritten = FALSE

\* The transcription specifications leave the extraction where it starts
ExtractionIdle ==
    /\ ExtractionFresh
    /\ metadataFile = MetaFile("absent", << >>)
    /\ toc = << >>
    /\ metaTotalPages = 0

InitExtract ==
    /\ TranscriptionIdle
    /\ FunctionsIdle
    /\ ExtractionFresh
    /\ files \in { {}, {StrayName} }
    /\ metadataFile \in { MetaFile("absent", << >>), MetaFile("corrupt", << >>) }
    /\ toc \in BookTocs
    /\ metaTotalPages \in {0, BookTotal}

NextExtract ==
    \/ \E f \in BOOLEAN : EStartRun(f)
    \/ \E ok \in BOOLEAN : ESession(ok)
    \/ EResume
    \/ \E nav \in {PositionAt(cur), NoPosition} : ELoopTop(nav)
    \/ \E o \in ClickOutcomes \cup WaitOutcomes : ESkipPoll(o)
    \/ \E o \in ClickOutcomes \cup WaitOutcomes : ECapPoll(o)
    \/ EWrite
    \/ EKill

SpecExtract == InitExtract /\ [][NextExtract]_vars

\* Names of the pages directory in the transcription runs: two written by
\* the extraction (one with a two-digit index) and one stray png
ArtifactNames ==
    { screenshotPath(0, 7, 2), screenshotPath(10, 8, 2), StrayName }

Init ==
    /\ ExtractionIdle
    /\ FunctionsIdle
    /\ files = {}
    /\ contentFile \in {NoFile("absent"), NoFile("corrupt")}
    /\ tpc = "idle"
    /\ existingContent = << >>
    /\ screenshotsToProcess = << >>
    /\ units = << >>
    /\ tRuns = 0
    /\ prevContentFile = NoFile("absent")
    /\ added = FALSE
    /\ sameArtifacts = FALSE
    /\ writes = 0

Next ==
    \/ TStartRun
    \/ \E i \in 1..Len(units), readable \in BOOLEAN : TBegin(i, readable)
    \/ \E i \in 1..Len(units), r \in Responses : TAttempt(i, r)
    \/ TMerge
    \/ \E name \in ArtifactNames : AddArtifact(name)

Spec == Init /\ [][Next]_vars

----------------------------------------------------------------------------
(* The merge step alone: every state in which all mapper calls have        *)
(* resolved, over small chunks, followed by TMerge.                        *)

MaxMergeIndex == 2

MergePageLow == 8

MergePageHigh == 10

MergeKeys == (0..MaxMergeIndex) \X (MergePageLow..MergePageHigh)

MergeChunk(k) ==
    [index |-> k[1], page |-> k[2], text |-> "text", screenshot |-> screenshotPath(k[1], k[2], 2)]

MergeUnit(k, st) == [st |-> st, retries |-> 0, calls |-> 1, index |-> k[1], page |-> k[2]]

InitMerge ==
    /\ ExtractionIdle
    /\ FunctionsIdle
    /\ files = {}
    /\ contentFile = NoFile("absent")
    /\ tpc = "dispatch"
    /\ \E a, b \in MergeKeys :
         existingContent \in { << >>, <<MergeChunk(a)>>, <<MergeChunk(a), MergeChunk(b)>> }
    /\ \E n \in MergeKeys, st \in {"chunk", "none"} :
         /\ screenshotsToProcess = <<screenshotPath(n[1], n[2], 2)>>
         /\ units = <<MergeUnit(n, st)>>
    /\ screenshotsToProcess[1] \notin processedScreenshots(existingContent)
    /\ Cardinality(processedScreenshots(existingContent)) = Len(existingContent)
    /\ tRuns = 1
    /\ prevContentFile = NoFile("absent")
    /\ added = FALSE
    /\ sameArtifacts = FALSE
    /\ writes = 0

NextMerge == TMerge

SpecMerge == InitMerge /\ [][NextMerge]_vars

----------------------------------------------------------------------------
(* Claims *)

\* The names that were sent to the recognizer in the current run
Recognized ==
    { screenshotsToProcess[i] : i \in
        { j \in 1..Len(units) : units[j].retries > 0 \/ units[j].st \in {"chunk", "none"} } }

ChunkSources(file) == { file.chunks[i].screenshot : i \in 1..Len(file.chunks) }

\* C1: in a transcription run the work set is exactly the artifacts on disk
\* that are the source of no chunk of the manifest the run found, each once;
\* nothing that already has a chunk is sent to the recognizer.
TheoremC1 ==
    (tRuns >= 1 /\ ~added) =>
        /\ Range(screenshotsToProcess) = files \ ChunkSources(prevContentFile)
        /\ Cardinality(Range(screenshotsToProcess)) = Len(screenshotsToProcess)
        /\ Recognized \cap ChunkSources(prevContentFile) = {}

\* C1 witness: a second run over the same artifacts finds a manifest with a
\* chunk and still selects an artifact (one the first run gave up on), and
\* the recognizer has been called for it.
WitnessC1 ==
    /\ tRuns = 2 /\ sameArtifacts /\ tpc = "dispatch"
    /\ prevContentFile.kind = "json" /\ Len(existingContent) = 1
    /\ Len(screenshotsToProcess) = 1
    /\ Recognized # {}

\* C2 as stated: when a run has written content.json, a second run over the
\* same artifact set leaves content.json as the first run left it.
CounterexampleC2 ==
    (tpc \in {"done", "aborted"} /\ sameArtifacts /\ prevContentFile.kind = "json")
        => contentFile = prevContentFile

\* C2 amended: a second run over the same artifact set leaves content.json as
\* the first run left it when the first run left a chunk for every artifact.
TheoremC2 ==
    (/\ tpc \in {"done", "aborted"} /\ sameArtifacts
     /\ prevContentFile.kind = "json"
     /\ files \subseteq ChunkSources(prevContentFile))
        => contentFile = prevContentFile

\* C2 witness: the second run ended over two artifacts that both had a chunk.
WitnessC2 ==
    /\ tRuns = 2 /\ tpc = "done" /\ sameArtifacts
    /\ prevContentFile.kind = "json"
    /\ Len(prevContentFile.chunks) = 2
    /\ files = ChunkSources(prevContentFile)
    /\ writes = 1

\* C3: content.json never holds two chunks with the same source artifact.
TheoremC3 ==
    \A i, j \in 1..Len(contentFile.chunks) :
        contentFile.chunks[i].screenshot = contentFile.chunks[j].screenshot => i = j

\* C3 witness: a run that found one chunk merged a second one into it.
WitnessC3 ==
    /\ tRuns = 2 /\ tpc = "done"
    /\ Len(existingContent) = 1
    /\ Len(screenshotsToProcess) = 1
    /\ Len(contentFile.chunks) = 2

KeysOf(chunks) == [i \in 1..Len(chunks) |-> <<chunks[i].index, chunks[i].page>>]

Occurrences(chunks, c) == Cardinality({ i \in 1..Len(chunks) : chunks[i] = c })

\* the chunks the resolved mapper calls produced
Produced ==
    { [index |-> units[i].index, page |-> units[i].page, text |-> "text",
       screenshot |-> screenshotsToProcess[i]] :
        i \in { j \in 1..Len(units) : units[j].st = "chunk" } }

\* C4: the merge writes exactly the chunks of the existing manifest and the
\* newly produced ones, ascending by (index, page); existing [(2,10),(0,8)]
\* with new [(1,9)] gives [(0,8),(1,9),(2,10)].
TheoremC4 ==
    tpc = "done" =>
        LET out == contentFile.chunks
        IN  /\ contentFile.kind = "json"
            /\ Len(out) = Len(existingContent) + Cardinality(Produced)
            /\ \A c \in Range(existingContent) :
                 Occurrences(out, c) = Occurrences(existingContent, c)
            /\ \A c \in Produced : Occurrences(out, c) = 1
            /\ \A i, j \in 1..Len(out) :
                 i < j => \/ out[i].index < out[j].index
                          \/ out[i].index = out[j].index /\ out[i].page <= out[j].page
            /\ (KeysOf(existingContent) = <<<<2, 10>>, <<0, 8>>>>
                    /\ { <<c.index, c.page>> : c \in Produced } = {<<1, 9>>})
                 => KeysOf(out) = <<<<0, 8>>, <<1, 9>>, <<2, 10>>>>

\* C4 witness: the merge of existing [(2,10),(0,8)] with new [(1,9)] is done.
WitnessC4 ==
    /\ tpc = "done"
    /\ KeysOf(existingContent) = <<<<2, 10>>, <<0, 8>>>>
    /\ { <<c.index, c.page>> : c \in Produced } = {<<1, 9>>}
    /\ Len(contentFile.chunks) = 3

\* C5 as stated: the chunk of an artifact the extraction wrote for
\* (index, page) carries that index and that page.
CounterexampleC5 ==
    \A n \in 1..Len(contentFile.chunks) :
        \A i \in 0..10, p \in 1..10 :
            contentFile.chunks[n].screenshot = screenshotPath(i, p, 2)
                => contentFile.chunks[n].index = i /\ contentFile.chunks[n].page = p


----------------------------------------------------------------------------
(* extract: resume, skip and the end of the capture loop                   *)

\* The run is past the resume step and nothing has ended it from outside
Resumed == epc \in {"loop", "skipnav", "capnav", "verify", "done"}

\* A non-forced run that found a metadata.json it could parse
ResumedFromManifest == Resumed /\ ~force /\ manifestAtStart.kind = "json"

OnlyArtifactsAtStart == \A f \in filesAtStart : pageOfName(f) > 0

\* C7 (fails): when the run found more artifacts than manifest entries, the
\* pages list written at the end has an entry for every artifact that was on
\* disk at the start of the run.
CounterexampleC7 ==
    (epc = "done" /\ discarded /\ OnlyArtifactsAtStart) =>
        \A f \in filesAtStart :
            \E i \in 1..Len(metadataFile.pages) :
                \/ metadataFile.pages[i].screenshot = f
                \/ metadataFile.pages[i].page = pageOfName(f)

\* The pages before the end boundary
ContentPages == { p \in 1..BookTotal :
                    /\ firstPageTocItem(toc) # 0
                    /\ p >= toc[firstPageTocItem(toc)].page
                    /\ p < totalContentPages(toc) }

\* The manifest and the artifacts the run started with both hold every page
\* before the end boundary
CoveredAtStart ==
    /\ eRuns > 0
    /\ manifestAtStart.kind = "json"
    /\ OnlyArtifactsAtStart
    /\ \A p \in ContentPages :
        /\ \E i \in 1..Len(manifestAtStart.pages) : manifestAtStart.pages[i].page = p
        /\ p \in pageNumbers(filesAtStart)

\* C8 (fails): a non-forced run started when manifest and artifacts cover the
\* end boundary captures nothing and leaves the manifest's pages list and the
\* artifact directory as they were.
CounterexampleC8 ==
    (~force /\ CoveredAtStart) =>
        /\ files = filesAtStart
        /\ metadataFile.kind = "json"
        /\ metadataFile.pages = manifestAtStart.pages

\* The path the capture loop computes for the position nav
PathAt(nav) == screenshotPath(Len(pages), nav.page, pagePaddingOf(BookTotal))

\* C9: in a non-forced run, when a file exists at the path computed from
\* (index, page), nothing is captured and the directory stays as it is, a
\* PageArtifact for the path is appended to pages and the advance loop is
\* entered; a non-forced run never writes over an existing file.
TheoremC9 ==
    [][ /\ (/\ epc = "loop"
            /\ epc' \in {"skipnav", "capnav"}
            /\ ~force
            /\ PathAt(pageNav') \in files)
           => /\ epc' = "skipnav"
              /\ retries' = 0
              /\ files' = files
              /\ pages' = Append(pages, [index |-> Len(pages), page |-> pageNav'.page,
                                         total |-> pageNav'.total,
                                         screenshot |-> PathAt(pageNav')])
        /\ ~force' => ~overwritten' ]_vars

\* The skip path has been taken for an artifact that was on disk at the start
WitnessC9 ==
    /\ epc = "skipnav"
    /\ ~force
    /\ Len(pages) > pagesBase
    /\ pages[Len(pages)].screenshot \in filesAtStart
    /\ files = filesAtStart

\* C10: the capture loop ends at the first position read that is absent or
\* has page >= the end boundary, and goes on otherwise, so every PageArtifact
\* appended during a run has page < the end boundary.
TheoremC10 ==
    /\ \A i \in (pagesBase + 1)..Len(pages) :
        pages[i].page # NoNum /\ pages[i].page < totalContentPages(toc)
    /\ epc \in {"skipnav", "capnav"} =>
        pageNav.page # NoNum /\ pageNav.page < totalContentPages(toc)
    /\ epc = "verify" =>
        pageNav.page = NoNum \/ pageNav.page >= totalContentPages(toc)

\* The loop has appended a PageArtifact and then read the end boundary
WitnessC10 ==
    /\ epc = "verify"
    /\ Len(pages) > pagesBase
    /\ pageNav.page = totalContentPages(toc)
    /\ totalContentPages(toc) < BookTotal


----------------------------------------------------------------------------
(* extract: an advance that does not move the reader                       *)

\* The advance after the last append of this run left the reader on the page
\* that was appended: the request could not be issued, or the retries ran out
AdvanceFailed ==
    /\ epc = "loop"
    /\ Len(pages) > pagesBase
    /\ pages[Len(pages)].page = cur

\* C11 (fails): after an advance that did not change the observed content
\* the capture loop ends: the next step of the run is the verification, and
\* no further PageArtifact is appended.
CounterexampleC11 ==
    [][ (AdvanceFailed /\ epc' # "killed") => (epc' = "verify" /\ pages' = pages) ]_vars


----------------------------------------------------------------------------
(* transcribe: failures of one artifact                                    *)

\* The per-artifact loop of unit i ended because its retries ran out
Exhausted(i) == units[i].st = "none" /\ units[i].retries >= maxRetries

\* C12 (fails): once the retries of one artifact are exhausted the run does
\* not abort: that artifact gets no chunk, and the merged content manifest is
\* written exactly once, after every dispatched unit has resolved.
CounterexampleC12 ==
    (tpc \in {"dispatch", "done", "aborted"} /\ \E i \in 1..Len(units) : Exhausted(i)) =>
        /\ tpc # "aborted"
        /\ tpc = "dispatch" => writes = 0
        /\ tpc = "done" =>
            /\ writes = 1
            /\ AllResolved
            /\ \A i \in 1..Len(units) :
                Exhausted(i) =>
                    screenshotsToProcess[i] \notin processedScreenshots(contentFile.chunks)


\* C13 (fails): a failure local to one artifact of the work set (unreadable
\* file, file name that does not parse, failing recognizer) never aborts the
\* run: a run aborts only before it has a work set.
CounterexampleC13 == tpc = "aborted" => Len(screenshotsToProcess) = 0


----------------------------------------------------------------------------
(* a manifest that is present but is not JSON                              *)

\* C14 (fails): a run that finds a content.json that does not parse aborts:
\* it dispatches no work on an empty existing content and leaves the file as
\* it found it.
CounterexampleC14 ==
    (tpc # "idle" /\ prevContentFile.kind = "corrupt") =>
        /\ tpc = "aborted"
        /\ contentFile = prevContentFile


----------------------------------------------------------------------------
(* transcribe: isRetryableError on its own                                 *)

NetworkCodes == {"ECONNRESET", "ENOTFOUND", "ECONNREFUSED"}

FatalTypes == {"insufficient_quota", "invalid_request_error"}

\* The errors the classifier is evaluated on: every combination of a status,
\* a type and a code, the values around each comparison of the code included
ErrorInputs ==
    [status : {0, 400, 401, 429, 499, 500, 503, 599, 600},
     type : FatalTypes \cup {"", "rate_limit_exceeded", "server_error"},
     code : NetworkCodes \cup {"", "ETIMEDOUT"}]

InitClassify ==
    /\ TranscriptionIdle
    /\ ExtractionIdle
    /\ files = {}
    /\ arg \in ErrorInputs
    /\ result = << >>

Classify ==
    /\ result = << >>
    /\ result' = <<isRetryableError(arg)>>
    /\ UNCHANGED <<files, tvars, evars, arg>>

NextClassify == Classify

SpecClassify == InitClassify /\ [][NextClassify]_vars

----------------------------------------------------------------------------
(* transcribe: one failing call of the per-artifact loop on its own        *)

\* A mapper call that has made `n` failed calls of the recognizer
RunningUnit(n) == [st |-> "running", retries |-> n, calls |-> n, index |-> 0, page |-> 8]

\* an error thrown by the recognizer, and the retries counted before it
AttemptInputs == [error : ErrorInputs \ {NoError}, retries : {0, 1, maxRetries - 2}]

InitAttempt ==
    /\ TranscriptionIdle
    /\ ExtractionIdle
    /\ files = {}
    /\ arg \in AttemptInputs
    /\ result = << >>

\* The iteration of while (retries < maxRetries) in which the call throws arg.error
FailingAttempt ==
    /\ result = << >>
    /\ result' = <<afterAttempt(RunningUnit(arg.retries), [kind |-> "error", error |-> arg.error])>>
    /\ UNCHANGED <<files, tvars, evars, arg>>

NextAttempt == FailingAttempt

SpecAttempt == InitAttempt /\ [][NextAttempt]_vars

\* C16 (fails): after a recognizer error of type insufficient_quota or
\* invalid_request_error, whatever its status and code, the per-artifact loop
\* makes no further attempt: the unit is given up.
CounterexampleC16 ==
    (result # << >> /\ arg.error.type \in FatalTypes) => result[1].st = "none"


----------------------------------------------------------------------------
(* transcribe: the bound of the per-artifact loop                          *)

\* The chunks content.json holds for the artifact of unit i
ChunksOf(i) ==
    { k \in 1..Len(contentFile.chunks) :
        contentFile.chunks[k].screenshot = screenshotsToProcess[i] }

\* C17: whatever the recognizer answers, a mapper call makes at most 20 calls
\* of it; while the loop runs every call made has been counted in retries,
\* which stays below 20; the loop ends in Success, one chunk, or in GivenUp,
\* no chunk.
TheoremC17 ==
    \A i \in 1..Len(units) :
        /\ units[i].calls <= maxRetries
        /\ units[i].st \in {"pending", "running", "chunk", "none"}
        /\ units[i].st = "pending" => units[i].calls = 0
        /\ units[i].st = "running" =>
            units[i].calls = units[i].retries /\ units[i].retries < maxRetries
        /\ units[i].st \in {"chunk", "none"} => units[i].calls >= 1
        /\ (tpc = "done" /\ units[i].st = "chunk") => Cardinality(ChunksOf(i)) = 1
        /\ (tpc = "done" /\ units[i].st = "none") => ChunksOf(i) = {}

\* A run is over in which the twentieth call for one artifact gave its text
\* and the twentieth call for another exhausted its retries
WitnessC17 ==
    /\ tpc = "done"
    /\ \E i \in 1..Len(units) : units[i].st = "chunk" /\ units[i].calls = maxRetries
    /\ \E i \in 1..Len(units) : units[i].st = "none" /\ units[i].calls = maxRetries


----------------------------------------------------------------------------
(* transcribe: calculateBackoffDelay on its own                            *)

baseDelay == 1000

maxDelay == 30000

\* Mutant: the delay is not capped
uncappedBackoff(attempt, random) ==
    baseDelay * 2^(attempt - 1) + ((baseDelay * 2^(attempt - 1)) \div 1000) * random

\* random is Math.random() in hundredths, so that random * 0.1 * exponentialDelay
\* is exponentialDelay / 1000 * random, a whole number of ms
calculateBackoffDelay(attempt, random) ==
    LET exponentialDelay == baseDelay * 2^(attempt - 1)
        jitter == (exponentialDelay \div 1000) * random
    IN  Min(exponentialDelay + jitter, maxDelay)

\* values of Math.random(), in hundredths
Randoms == {0, 1, 50, 99}

\* an attempt number with the random value of its call and of the next call
BackoffInputs == [attempt : 1..maxRetries, random : Randoms, nextRandom : Randoms]

InitBackoff ==
    /\ TranscriptionIdle
    /\ ExtractionIdle
    /\ files = {}
    /\ arg \in BackoffInputs
    /\ result = << >>

\* The delays of two consecutive retries
Backoff ==
    /\ result = << >>
    /\ result' = <<calculateBackoffDelay(arg.attempt, arg.random),
                   calculateBackoffDelay(arg.attempt + 1, arg.nextRandom)>>
    /\ UNCHANGED <<files, tvars, evars, arg>>

NextBackoff == Backoff

SpecBackoff == InitBackoff /\ [][NextBackoff]_vars

\* C18: the wait before retry a in 1..20 is min(1000 * 2^(a-1) * (1 + jitter),
\* 30000) with jitter in [0, 0.1) (here random / 1000); whatever the jitters,
\* the wait before retry a + 1 is not shorter, and no wait exceeds 33000 ms.
TheoremC18 ==
    result # << >> =>
        /\ result[1] = Min((2^(arg.attempt - 1)) * (1000 + arg.random), 30000)
        /\ result[1] <= 33000
        /\ arg.attempt < maxRetries => result[1] <= result[2]

\* The fifth wait with the largest jitter is below the cap, the sixth is the cap
WitnessC18 ==
    /\ result = <<17584, 30000>>
    /\ arg.attempt = 5
    /\ arg.random = 99


----------------------------------------------------------------------------
(* utils: deromanize                                                       *)

UpperNumerals == <<"I", "V", "X", "L", "C", "D", "M">>

LowerNumerals == <<"i", "v", "x", "l", "c", "d", "m">>

NumeralValues == <<1, 5, 10, 50, 100, 500, 1000>>

IsNumeral(c) == \E k \in 1..7 : c = UpperNumerals[k] \/ c = LowerNumerals[k]

\* numerals[c.toUpperCase()]
numerals(c) ==
    NumeralValues[CHOOSE k \in 1..7 : c = UpperNumerals[k] \/ c = LowerNumerals[k]]

\* Mutant: every numeral is added
RECURSIVE deromanizeAdditive(_)
deromanizeAdditive(romanNumeral) ==
    IF Len(romanNumeral) = 0 THEN 0
    ELSE numerals(romanNumeral[1]) + deromanizeAdditive(Tail(romanNumeral))

\* while (roman.length): val = numerals[roman.shift()], subtracted when it is
\* smaller than the value of the next numeral (no next numeral: added)
RECURSIVE deromanize(_)
deromanize(romanNumeral) ==
    IF Len(romanNumeral) = 0 THEN 0
    ELSE LET val == numerals(romanNumeral[1])
         IN  (IF Len(romanNumeral) > 1 /\ val < numerals(romanNumeral[2]) THEN 0 - val ELSE val)
                + deromanize(Tail(romanNumeral))


----------------------------------------------------------------------------
(* extract: parsePageNav                                                   *)
(* A footer text is a sequence of tokens: a word ("page", "of", ...) is    *)
(* one token, a digit, a roman numeral letter, a blank or "#" is one each. *)

\* tokens that end with the letters p-a-g-e, in any case
PageWords == {"page", "Page", "PAGE", "homepage"}

\* tokens that end with the letters l-o-c-a-t-i-o-n, in any case
LocationWords == {"location", "Location"}

OfWords == {"of", "Of"}

Blanks == {" "}

DigitChars == { Digits[d] : d \in 1..10 }

NumeralChars == { UpperNumerals[k] : k \in 1..7 } \cup { LowerNumerals[k] : k \in 1..7 }

\* length of the longest run of tokens of class C that starts at text[from]
RunLen(text, from, C) ==
    CHOOSE k \in 0..(Len(text) + 1 - from) :
        /\ \A j \in from..(from + k - 1) : text[j] \in C
        /\ (from + k > Len(text) \/ text[from + k] \notin C)

\* <word>\s+(<C>+)\s+of\s+(\d+) matched with the word at text[i]: the two
\* groups, or << >>. Each + takes the whole run: what follows a run is of
\* another class, so no shorter choice can match.
MatchAt(text, i, words, C) ==
    LET s1 == RunLen(text, i + 1, Blanks)
        a == i + 1 + s1
        n == RunLen(text, a, C)
        b == a + n
        s2 == RunLen(text, b, Blanks)
        c == b + s2
        s3 == RunLen(text, c + 1, Blanks)
        d == c + 1 + s3
        m == RunLen(text, d, DigitChars)
    IN  IF /\ text[i] \in words
           /\ s1 >= 1 /\ n >= 1 /\ s2 >= 1
           /\ c <= Len(text) /\ text[c] \in OfWords
           /\ s3 >= 1 /\ m >= 1
        THEN <<SubSeq(text, a, b - 1), SubSeq(text, d, d + m - 1)>>
        ELSE << >>

\* text.match(re): the match that starts leftmost
Match(text, words, C) ==
    LET starts == { i \in 1..Len(text) : MatchAt(text, i, words, C) # << >> }
    IN  IF starts = {} THEN << >>
        ELSE MatchAt(text, CHOOSE i \in starts : \A j \in starts : i <= j, words, C)

\* The text of the footer: present = FALSE is textContent() giving null
FooterText(tokens) == [present |-> TRUE, text |-> tokens]

NoText == [present |-> FALSE, text |-> << >>]

\* Mutant: the location pattern is tried before the page pattern
parseLocationFirst(t) ==
    IF ~t.present THEN NoPosition
    ELSE LET byPage == Match(t.text, PageWords, DigitChars)
             byLocation == Match(t.text, LocationWords, DigitChars)
             byRoman == Match(t.text, PageWords, NumeralChars)
         IN  IF byLocation # << >>
             THEN [page |-> NoNum, location |-> parseInt(byLocation[1]),
                   total |-> parseInt(byLocation[2])]
             ELSE IF byPage # << >>
             THEN [page |-> parseInt(byPage[1]), location |-> NoNum,
                   total |-> parseInt(byPage[2])]
             ELSE IF byRoman # << >>
             THEN [page |-> NoNum, location |-> deromanize(byRoman[1]),
                   total |-> parseInt(byRoman[2])]
             ELSE NoPosition

\* The three blocks of parsePageNav in their order. The groups are digits or
\* numerals, so no NaN arises.
parsePageNav(t) ==
    IF ~t.present THEN NoPosition
    ELSE LET byPage == Match(t.text, PageWords, DigitChars)
             byLocation == Match(t.text, LocationWords, DigitChars)
             byRoman == Match(t.text, PageWords, NumeralChars)
         IN  IF byPage # << >>
             THEN [page |-> parseInt(byPage[1]), location |-> NoNum,
                   total |-> parseInt(byPage[2])]
             ELSE IF byLocation # << >>
             THEN [page |-> NoNum, location |-> parseInt(byLocation[1]),
                   total |-> parseInt(byLocation[2])]
             ELSE IF byRoman # << >>
             THEN [page |-> NoNum, location |-> deromanize(byRoman[1]),
                   total |-> parseInt(byRoman[2])]
             ELSE NoPosition


----------------------------------------------------------------------------
(* extract: parsePageNav on its own                                        *)

\* "location 3 of 7 " in front of the rest of the text
LocationPrefix == <<"location", " ", "3", " ", "of", " ", "7", " ">>

DigitNums == { <<"5">>, <<"1", "2">>, <<"0", "7">> }

RomanNums == { <<"i", "v">>, <<"X", "I", "I">> }

\* Footer texts put together from parts, well formed or not:
\* prefix word sep1 num sep2 of sep3 total suffix
FooterParts ==
    [present : {TRUE},
     prefix : { << >>, <<"#", " ">>, LocationPrefix },
     word : PageWords \cup LocationWords \cup {"pages"},
     sep1 : { << >>, <<" ">>, <<" ", " ">> },
     num : DigitNums \cup RomanNums \cup { <<"5", "x">>, << >> },
     sep2 : { << >>, <<" ">> },
     of : OfWords \cup {"to"},
     sep3 : { << >>, <<" ">> },
     total : { <<"9">>, <<"1", "0", "0">>, <<"0">>, << >> },
     suffix : { << >>, <<" ", "#">> }]

\* textContent() gave null
AbsentFooter ==
    [present |-> FALSE, prefix |-> << >>, word |-> "pages", sep1 |-> << >>, num |-> << >>,
     sep2 |-> << >>, of |-> "to", sep3 |-> << >>, total |-> << >>, suffix |-> << >>]

TextOf(a) ==
    IF a.present
    THEN FooterText(a.prefix \o <<a.word>> \o a.sep1 \o a.num \o a.sep2 \o <<a.of>>
                        \o a.sep3 \o a.total \o a.suffix)
    ELSE NoText

InitParse ==
    /\ TranscriptionIdle
    /\ ExtractionIdle
    /\ files = {}
    /\ arg \in FooterParts \cup {AbsentFooter}
    /\ result = << >>

Parse ==
    /\ result = << >>
    /\ result' = <<parsePageNav(TextOf(arg))>>
    /\ UNCHANGED <<files, tvars, evars, arg>>

NextParse == Parse

SpecParse == InitParse /\ [][NextParse]_vars

\* The parts after the prefix read "<word> N of M" with blanks between them
WellFormed(a, words, nums) ==
    /\ a.present
    /\ a.word \in words
    /\ a.sep1 # << >> /\ a.sep2 # << >> /\ a.sep3 # << >>
    /\ a.num \in nums
    /\ a.of \in OfWords
    /\ a.total # << >>

PageForm(a) == WellFormed(a, PageWords, DigitNums)

LocationForm(a) == WellFormed(a, LocationWords, DigitNums)

RomanForm(a) == WellFormed(a, PageWords, RomanNums)

\* C19: the parser gives {page N, total M} for a text with "page N of M",
\* otherwise {location N, total M} for one with "location N of M", otherwise
\* {location deromanize(R), total M} for one with "page R of M", and nothing
\* for a text with none of them and for an absent text.
TheoremC19 ==
    result # << >> =>
        /\ PageForm(arg) =>
            result[1] = [page |-> parseInt(arg.num), location |-> NoNum,
                         total |-> parseInt(arg.total)]
        /\ (arg.prefix = LocationPrefix /\ ~PageForm(arg)) =>
            result[1] = [page |-> NoNum, location |-> 3, total |-> 7]
        /\ (arg.prefix # LocationPrefix /\ LocationForm(arg)) =>
            result[1] = [page |-> NoNum, location |-> parseInt(arg.num),
                         total |-> parseInt(arg.total)]
        /\ (arg.prefix # LocationPrefix /\ RomanForm(arg)) =>
            result[1] = [page |-> NoNum, location |-> deromanize(arg.num),
                         total |-> parseInt(arg.total)]
        /\ (arg.prefix # LocationPrefix
                /\ ~PageForm(arg) /\ ~LocationForm(arg) /\ ~RomanForm(arg)) =>
            result[1] = NoPosition

\* "location 3 of 7 Page 12 of 100" has been parsed as page 12 of 100
WitnessC19 ==
    /\ arg.prefix = LocationPrefix
    /\ arg.word = "Page"
    /\ arg.suffix = << >>
    /\ result = <<[page |-> 12, location |-> NoNum, total |-> 100]>>


----------------------------------------------------------------------------
(* utils: deromanize on its own                                            *)

\* The numbers that have a canonical roman numeral
RomanRange == 1..3999

\* The symbols of canonical roman notation, largest first
RomanSymbols ==
    << <<"M">>, <<"C", "M">>, <<"D">>, <<"C", "D">>, <<"C">>, <<"X", "C">>, <<"L">>,
       <<"X", "L">>, <<"X">>, <<"I", "X">>, <<"V">>, <<"I", "V">>, <<"I">> >>

RomanSymbolValues == <<1000, 900, 500, 400, 100, 90, 50, 40, 10, 9, 5, 4, 1>>

\* The canonical roman numeral of n: the largest symbol that fits, repeatedly
RECURSIVE toRoman(_)
toRoman(n) ==
    IF n = 0 THEN << >>
    ELSE LET k == CHOOSE j \in 1..13 :
                    /\ RomanSymbolValues[j] <= n
                    /\ \A h \in 1..(j - 1) : RomanSymbolValues[h] > n
         IN  RomanSymbols[k] \o toRoman(n - RomanSymbolValues[k])

InitRoman ==
    /\ TranscriptionIdle
    /\ ExtractionIdle
    /\ files = {}
    /\ arg \in RomanRange
    /\ result = << >>

Deromanize ==
    /\ result = << >>
    /\ result' = <<deromanize(toRoman(arg))>>
    /\ UNCHANGED <<files, tvars, evars, arg>>

NextRoman == Deromanize

SpecRoman == InitRoman /\ [][NextRoman]_vars

\* C20: for every n in 1..3999, deromanize of the canonical roman numeral of
\* n is n.
TheoremC20 == result # << >> => result = <<arg>>

\* MCMXCIV, with three subtractive pairs, has been read back as 1994
WitnessC20 ==
    /\ arg = 1994
    /\ toRoman(arg) = <<"M", "C", "M", "X", "C", "I", "V">>
    /\ result = <<1994>>


----------------------------------------------------------------------------
(* extract: parseTocItems and the end boundary on their own                *)

TocTitles == { <<"cover">>, <<"chapter", "one">>, <<"copyright">>, <<"about", "the", "author">> }

\* positions of a book of 100 pages: pages 5, 89, 90 and 96, location 3, none
TocPositions ==
    { [page |-> p, location |-> NoNum, total |-> 100] : p \in {5, 89, 90, 96} }
        \cup { [page |-> NoNum, location |-> 3, total |-> 100], NoPosition }

\* { title, ...pageNav }
TocEntries ==
    { [title |-> t, page |-> n.page, location |-> n.location, total |-> n.total] :
        t \in TocTitles, n \in TocPositions }

MaxTocLen == 3

TocInputs == UNION { [1..k -> TocEntries] : k \in 0..MaxTocLen }

InitToc ==
    /\ TranscriptionIdle
    /\ ExtractionIdle
    /\ files = {}
    /\ arg \in TocInputs
    /\ result = << >>

\* parseTocItems(tocItems), then totalContentPages; failed: the assert on
\* firstPageTocItem throws
ClassifyToc ==
    /\ result = << >>
    /\ result' = <<IF firstPageTocItem(arg) = 0
                   THEN [failed |-> TRUE, start |-> 0, end |-> 0, boundary |-> 0]
                   ELSE [failed |-> FALSE,
                         start |-> firstPageTocItem(arg),
                         end |-> afterLastPageTocItem(arg),
                         boundary |-> totalContentPages(arg)]>>
    /\ UNCHANGED <<files, tvars, evars, arg>>

NextToc == ClassifyToc

SpecToc == InitToc /\ [][NextToc]_vars

HasPage(e) == e.page # NoNum

\* C21: start is the first entry in reading order whose position is a page;
\* entries with a location only or with no position are passed over; the
\* classifier fails when no entry has a page.
TheoremC21 ==
    result # << >> =>
        /\ result[1].failed <=> (\A i \in 1..Len(arg) : ~HasPage(arg[i]))
        /\ ~result[1].failed =>
            /\ result[1].start \in 1..Len(arg)
            /\ HasPage(arg[result[1].start])
            /\ \A j \in 1..(result[1].start - 1) : ~HasPage(arg[j])

\* Entries without position and with a location only come before the start
WitnessC21 ==
    /\ result # << >>
    /\ Len(arg) = 3
    /\ arg[1].page = NoNum /\ arg[1].location = NoNum
    /\ arg[2].page = NoNum /\ arg[2].location = 3
    /\ arg[3].page = 5
    /\ result[1].start = 3

\* Entry i has a page at 90% of the book or later and a back-matter title
Qualifies(e) ==
    /\ HasPage(e)
    /\ 10 * e.page >= 9 * e.total
    /\ e.title \in { <<"copyright">>, <<"about", "the", "author">> }

\* C22: end is the first entry other than start that has a page, has
\* page/total >= 0.9 and a back-matter title; without such an entry end is
\* absent and the end boundary is the book's total; with one the end
\* boundary is that entry's page.
TheoremC22 ==
    (result # << >> /\ ~result[1].failed) =>
        LET start == result[1].start
            ends == { i \in 1..Len(arg) : i # start /\ Qualifies(arg[i]) }
        IN  IF ends = {}
            THEN result[1].end = 0 /\ result[1].boundary = arg[start].total
            ELSE /\ result[1].end \in ends
                 /\ \A j \in ends : result[1].end <= j
                 /\ result[1].boundary = arg[result[1].end].page

\* [{cover, absent}, {chapter one, page 5 of 100}, {copyright, page 96 of 100}]
\* gives start = the second entry, end = the third, end boundary 96
WitnessC22 ==
    /\ Len(arg) = 3
    /\ arg[1] = [title |-> <<"cover">>, page |-> NoNum, location |-> NoNum, total |-> 0]
    /\ arg[2] = [title |-> <<"chapter", "one">>, page |-> 5, location |-> NoNum, total |-> 100]
    /\ arg[3] = [title |-> <<"copyright">>, page |-> 96, location |-> NoNum, total |-> 100]
    /\ result = <<[failed |-> FALSE, start |-> 2, end |-> 3, boundary |-> 96]>>


----------------------------------------------------------------------------
(* export: the sections of the markdown file                               *)

\* content.findIndex((c) => c.page >= page): 0-based, -1 when there is none
findIndex(content, page) ==
    IF \E k \in 1..Len(content) : content[k].page >= page
    THEN (CHOOSE k \in 1..Len(content) :
            /\ content[k].page >= page
            /\ \A j \in 1..(k - 1) : content[j].page < page) - 1
    ELSE 0 - 1

\* Array.prototype.slice(start, end) for start >= 0: a negative end counts
\* from the end of the array
slice(content, start, end) ==
    LET to == IF end < 0 THEN Max(Len(content) + end, 0) ELSE Min(end, Len(content))
    IN  SubSeq(content, start + 1, to)

\* The chunks under the heading of TOC entry i (1-based), << >> when the
\* entry gets no heading
sectionChunks(content, tocItems, i) ==
    LET tocItem == tocItems[i]
        nextTocItem == tocItems[i + 1]
        startIndex == findIndex(content, tocItem.page)
        endIndex == IF nextTocItem.page # NoNum /\ nextTocItem.page # 0
                    THEN findIndex(content, nextTocItem.page)
                    ELSE Len(content)
    IN  IF tocItem.page = NoNum \/ startIndex = 0 - 1 THEN << >>
        ELSE slice(content, startIndex, endIndex)

\* for (let i = 0; i < metadata.toc.length - 1; i++): the chunks whose text
\* goes into the output, in order
RECURSIVE exportedChunks(_, _, _)
exportedChunks(content, tocItems, i) ==
    IF i >= Len(tocItems) THEN << >>
    ELSE sectionChunks(content, tocItems, i) \o exportedChunks(content, tocItems, i + 1)

ExportBookTotal == 10

ExportEntry(title, page) ==
    [title |-> title, page |-> page, location |-> NoNum, total |-> ExportBookTotal]

\* TOCs of a book of 10 pages that starts at page 1
ExportTocs ==
    { << ExportEntry(<<"chapter", "one">>, 1), ExportEntry(<<"copyright">>, 8) >>,
      << ExportEntry(<<"chapter", "one">>, 1), ExportEntry(<<"copyright">>, 9) >>,
      << ExportEntry(<<"chapter", "one">>, 1), ExportEntry(<<"chapter", "two">>, 4),
         ExportEntry(<<"copyright">>, 9) >>,
      << ExportEntry(<<"chapter", "one">>, 1), ExportEntry(<<"copyright">>, 9),
         ExportEntry(<<"about", "the", "author">>, 10) >>,
      << ExportEntry(<<"chapter", "one">>, 1), ExportEntry(<<"copyright">>, 9),
         [title |-> <<"cover">>, page |-> NoNum, location |-> 1, total |-> ExportBookTotal] >> }

\* content.json with one chunk for each page lo..hi, in page order
ContentOfPages(lo, hi) ==
    [k \in 1..(hi + 1 - lo) |-> [index |-> k - 1, page |-> lo + k - 1, text |-> "text"]]

ExportInputs ==
    [content : { ContentOfPages(lo, hi) : lo \in 1..3, hi \in 5..ExportBookTotal },
     toc : ExportTocs]

InitExport ==
    /\ TranscriptionIdle
    /\ ExtractionIdle
    /\ files = {}
    /\ arg \in ExportInputs
    /\ result = << >>

Export ==
    /\ result = << >>
    /\ result' = <<exportedChunks(arg.content, arg.toc, 1)>>
    /\ UNCHANGED <<files, tvars, evars, arg>>

NextExport == Export

SpecExport == InitExport /\ [][NextExport]_vars

\* C23 (fails): no chunk at or after the page of the back-matter entry, the
\* end boundary of the TOC, is in the export.
CounterexampleC23 ==
    (result # << >> /\ afterLastPageTocItem(arg.toc) # 0) =>
        \A k \in 1..Len(result[1]) : result[1][k].page < totalContentPages(arg.toc)


----------------------------------------------------------------------------
\* C24: metadata.json changes only in the step that follows verification,
\* which stores the pages of the run whether or not the loop reached the end
\* boundary; a run in verification that is not ended from outside takes that
\* step, and no step of the capture loop or after the write changes the file.
TheoremC24 ==
    [][ /\ (metadataFile' # metadataFile) =>
               (epc = "verify" /\ epc' = "done" /\ metadataFile' = MetaFile("json", pages))
        /\ (epc = "verify" /\ epc' # "killed") =>
               (epc' = "done" /\ metadataFile' = MetaFile("json", pages) /\ pages' = pages)
      ]_vars

\* A run whose loop ended on an unreadable position, with a page captured,
\* has written its pages
WitnessC24 ==
    /\ epc = "done"
    /\ pageNav = NoPosition
    /\ Len(pages) > 0
    /\ metadataFile = MetaFile("json", pages)
    /\ manifestAtStart # metadataFile


----------------------------------------------------------------------------
(* transcribe: the dispatch of a work set larger than the concurrency      *)

\* One artifact more than pMap runs at a time
DispatchUnits == concurrency + 1

\* The pages directory as the extraction leaves it after DispatchUnits pages
DispatchWork == [i \in 1..DispatchUnits |-> screenshotPath(i - 1, i, 2)]

\* What the recognizer answers in these runs: a text, and for the last
\* artifact also an error that is not retried
DispatchResponses(i) ==
    { [kind |-> "text", error |-> NoError] }
        \cup (IF i = DispatchUnits
              THEN { [kind |-> "error",
                      error |-> [status |-> 400, type |-> "invalid_request_error", code |-> ""]] }
              ELSE {})

\* main after the work set is computed, with no content.json
InitDispatch ==
    /\ ExtractionIdle
    /\ FunctionsIdle
    /\ files = Range(DispatchWork)
    /\ contentFile = NoFile("absent")
    /\ tpc = "dispatch"
    /\ existingContent = << >>
    /\ screenshotsToProcess = DispatchWork
    /\ units = [i \in 1..DispatchUnits |-> PendingUnit]
    /\ tRuns = 1
    /\ prevContentFile = NoFile("absent")
    /\ added = FALSE
    /\ sameArtifacts = FALSE
    /\ writes = 0

\* Whether readFile succeeds: in these runs only the last artifact can be
\* unreadable
DispatchReadable(i) == IF i = DispatchUnits THEN BOOLEAN ELSE {TRUE}

NextDispatch ==
    \/ \E i \in 1..Len(units) : \E readable \in DispatchReadable(i) : TBegin(i, readable)
    \/ \E i \in 1..Len(units) : \E r \in DispatchResponses(i) : TAttempt(i, r)
    \/ TMerge

SpecDispatch == InitDispatch /\ [][NextDispatch]_vars

InFlight == { i \in 1..Len(units) : units[i].st = "running" }

----------------------------------------------------------------------------
(* extract: progress of a run                                              *)

\* A step of the running program (not its start, not its end from outside)
ERun ==
    \/ \E ok \in BOOLEAN : ESession(ok)
    \/ EResume
    \/ \E nav \in {PositionAt(cur), NoPosition} : ELoopTop(nav)
    \/ \E o \in ClickOutcomes \cup WaitOutcomes : ESkipPoll(o)
    \/ \E o \in ClickOutcomes \cup WaitOutcomes : ECapPoll(o)
    \/ EWrite

\* The process keeps running while it has a step to take
SpecExtractLive == InitExtract /\ [][NextExtract]_vars /\ WF_vars(ERun)

\* C26 (fails): the polling after a next-page request is bounded: a run in
\* the advance loop of the capture path leaves that loop, whatever the page
\* source does.
CounterexampleC26 == (epc = "capnav") ~> (epc # "capnav")


\* C27 (fails): an error raised inside an advance loop, by the next-page
\* request or by the read of the content identity, is never fatal: no step
\* of an advance loop ends the run with an error.
CounterexampleC27 ==
    [][ (epc \in {"skipnav", "capnav"}) => (epc' # "aborted") ]_vars


----------------------------------------------------------------------------
(* extract: the verification summary                                       *)

\* What the verification prints from pages and totalContentPages
verification(ps, total) ==
    LET extractedPages == Len(ps)
        expectedPages == total
        missingPages == expectedPages - extractedPages
    IN  [expectedPages |-> expectedPages,
         extractedPages |-> extractedPages,
         missingPages |-> missingPages,
         report |-> IF missingPages > 0 THEN "warning"
                    ELSE IF extractedPages = expectedPages THEN "success"
                    ELSE "info"]

MaxBoundary == 8

\* pages as the loop leaves it after capturing lo..hi in order
PagesOf(lo, hi) ==
    [k \in 1..(hi + 1 - lo) |-> [index |-> k - 1, page |-> lo + k - 1]]

\* The end boundary and the pages captured before it
VerifyInputs ==
    { [total |-> b, pages |-> PagesOf(lo, hi)] :
        b \in 2..MaxBoundary, lo \in 1..3, hi \in 0..(MaxBoundary - 1) }

InitVerify ==
    /\ TranscriptionIdle
    /\ ExtractionIdle
    /\ files = {}
    /\ arg \in { a \in VerifyInputs : \A k \in 1..Len(a.pages) : a.pages[k].page < a.total }
    /\ result = << >>

Verify ==
    /\ result = << >>
    /\ result' = <<verification(arg.pages, arg.total)>>
    /\ UNCHANGED <<files, tvars, evars, arg>>

NextVerify == Verify

SpecVerify == InitVerify /\ [][NextVerify]_vars

\* Every page 1..endBoundary - 1 is in pages exactly once
CapturedAll(a) ==
    \A p \in 1..(a.total - 1) :
        Cardinality({ k \in 1..Len(a.pages) : a.pages[k].page = p }) = 1

\* C28 (fails): for a run that captured every page 1..endBoundary - 1 once
\* the verification reports no missing page.
CounterexampleC28 ==
    (result # << >> /\ CapturedAll(arg)) =>
        (result[1].missingPages <= 0 /\ result[1].report # "warning")


----------------------------------------------------------------------------
(* transcribe: a result of the recognizer without an error                 *)

\* What a call that returns can hold, and the retries counted before it
ResultInputs ==
    [kind : {"text", "empty", "refusal", "null"}, retries : 0..(maxRetries - 1)]

InitResult ==
    /\ TranscriptionIdle
    /\ ExtractionIdle
    /\ files = {}
    /\ arg \in ResultInputs
    /\ result = << >>

\* The iteration of while (retries < maxRetries) in which the call returns
ReturningAttempt ==
    /\ result = << >>
    /\ result' = <<afterAttempt(RunningUnit(arg.retries), [kind |-> arg.kind, error |-> NoError])>>
    /\ UNCHANGED <<files, tvars, evars, arg>>

NextResult == ReturningAttempt

SpecResult == InitResult /\ [][NextResult]_vars

\* C29 (fails): a result with no text, absent ("null") or empty after the
\* normalisation, before the 20th attempt is followed by another attempt:
\* the unit is still running and the failure has been counted. It never
\* gives a chunk.
CounterexampleC29 ==
    (result # << >> /\ arg.kind \in {"empty", "null"}) =>
        /\ result[1].st # "chunk"
        /\ (arg.retries + 1 < maxRetries) =>
               (result[1].st = "running" /\ result[1].retries = arg.retries + 1)


----------------------------------------------------------------------------
\* C30 (fails): every position the parser returns has total > 0 and its
\* page or location is a non-negative integer; a text that gives no such
\* position gives no position at all.
CounterexampleC30 ==
    (result # << >> /\ result[1] # NoPosition) =>
        /\ result[1].total > 0
        /\ result[1].page = NoNum \/ result[1].page >= 0
        /\ result[1].location = NoNum \/ result[1].location >= 0


----------------------------------------------------------------------------
(* extract: the capture index across runs                                  *)

\* The names the capture loop gives: digits, a dash, digits, ".png"
IsArtifactName(f) == pageOfName(f) > 0

\* The capture index a name carries: the digits before the dash
indexOfName(f) ==
    LET d == CHOOSE d \in 2..(Len(f) - 2) : f[d] = "-"
    IN  parseInt(SubSeq(f, 1, d - 1))

\* C31 (fails): the capture index of a page captured in a run differs from
\* the capture index of every artifact that was on disk when the run started.
CounterexampleC31 ==
    \A f \in files \ filesAtStart : \A g \in filesAtStart :
        (IsArtifactName(f) /\ IsArtifactName(g)) => indexOfName(f) # indexOfName(g)


----------------------------------------------------------------------------
(* export: what becomes of the chunks of an extraction                     *)

\* content.json as a transcription of an extraction leaves it: every chunk
\* is of a page below the end boundary of the TOC
FromExtraction(a) ==
    /\ firstPageTocItem(a.toc) # 0
    /\ \A k \in 1..Len(a.content) : a.content[k].page < totalContentPages(a.toc)

\* C32 (fails): every chunk of an extraction whose page is at or after the
\* page of the first page-numbered TOC entry is in exactly one section of
\* the export.
CounterexampleC32 ==
    (result # << >> /\ FromExtraction(arg)) =>
        \A k \in 1..Len(arg.content) :
            (arg.content[k].page >= arg.toc[firstPageTocItem(arg.toc)].page) =>
                Cardinality({ j \in 1..Len(result[1]) : result[1][j] = arg.content[k] }) = 1


----------------------------------------------------------------------------
(* extract: the offline check and a manifest of a partial run              *)

\* metadata.json lists pages, all of them below the last page before the
\* end boundary
StopsShort ==
    /\ metadataFile.kind = "json"
    /\ Len(metadataFile.pages) > 0
    /\ \A k \in 1..Len(metadataFile.pages) :
           metadataFile.pages[k].page < totalContentPages(toc) - 1

\* C33 (fails): a run that is not forced and finds such a manifest is not
\* ended by the offline completeness check.
CounterexampleC33 ==
    [][ (eRuns' = eRuns + 1 /\ ~force' /\ StopsShort) => (epc' # "returned") ]_vars


----------------------------------------------------------------------------
(* transcribe: the page order of the written manifest                      *)

\* C34 (fails): the artifacts of the work set were captured in
\* non-decreasing page order by capture index (index i - 1 holds page i);
\* when all of them are transcribed the chunks of content.json are in
\* non-decreasing page order.
CounterexampleC34 ==
    (tpc = "done" /\ \A i \in 1..Len(units) : units[i].st = "chunk") =>
        \A j, k \in 1..Len(contentFile.chunks) :
            j < k => contentFile.chunks[j].page <= contentFile.chunks[k].page

============================================================================
